---- MODULE Spec2Model ----
(***************************************************************************)
(* Model of autocxx's ParseBindgen (engine/src/conversion/parse/           *)
(* parse_bindgen.rs): the pass that turns bindgen's item tree into a list  *)
(* of Apis.  parse_items is modelled phase by phase; the walk of the item  *)
(* tree is modelled one parse_item call per step, the items of each mod    *)
(* being drawn as the walk reaches them.                                   *)
(*                                                                         *)
(* The second part models CppPin and the C++ reference wrappers of         *)
(* src/reference_wrapper.rs over a heap of addresses.                      *)
(***************************************************************************)
EXTENDS Naturals, Sequences, FiniteSets, TLC

VARIABLES
    config,     \* the IncludeCppConfig and ParseCallbackResults (read only)
    pc,         \* position inside parse_items
    apis,       \* self.apis
    rootItems,  \* result of find_items_in_root: "unset", "Some" or "None"
    stack,      \* one frame per active parse_mod_items call, innermost last
    result,     \* what the most recent parse_item call returned
    nitems,     \* number of declarations handed to parse_item so far
    outcome,    \* what parse_items returned: "running", "Ok", "Err_Rust",
                \* "Err_DidNotGenerateAnything" or "panic"
    errName,    \* the directive named by DidNotGenerateAnything
    blockedDecls, \* history: names of the struct and enum declarations handed
                \* to parse_item so far whose name is on the block list
    run,        \* 0: one run of parse_items; 1, 2: the first and the second of
                \* two runs on the same declaration tree and configuration
    trace,      \* history of the first of two runs: what was handed to each
                \* step and the state the step left
    pos         \* the next step of the trace the second run is to take

\* The state of the CppPin model.
VARIABLES
    heap,       \* address -> the value stored there, or "free"
    boxes,      \* addresses of the Box<T> values the client holds
    pin,        \* the CppPin, <<>> when there is none
    vended,     \* history: what the latest call on the CppPin returned
    src,        \* history: the box handed to from_box, <<>> if none
    out,        \* history: the box extract returned, <<>> if none
    rt,         \* history: a pointer and what a round trip made of it
    wrote       \* history: the contents were assigned since the CppPin was made

runVars == <<run, trace, pos>>

parseVars == <<config, pc, apis, rootItems, stack, result, nitems, outcome, errName,
              blockedDecls, runVars>>

pinVars == <<heap, boxes, pin, vended, src, out, rt, wrote>>

vars == <<parseVars, pinVars>>

(***************************************************************************)
(* Bounds of the model.                                                    *)
(***************************************************************************)
MaxItems == 2      \* declarations handed to parse_item in one run
MaxDepth == 1      \* nesting depth of mods below the root mod
MaxTop == 2        \* length of the top-level item list
MaxAddr == 3       \* heap addresses
MaxSlots == 2      \* places a CppPin value can be moved between
MaxRunItems == 1   \* declarations handed to parse_item in each of two runs
MaxRunTop == 1     \* length of the top-level item list of two runs

(***************************************************************************)
(* Names.  A QualifiedName is a namespace (sequence of segments) and a     *)
(* final identifier; a C++ name "a::b::C" is the sequence of its segments. *)
(***************************************************************************)
QN(ns, id) == [ns |-> ns, id |-> id]

\* QualifiedName::to_cpp_name: the namespace segments and the identifier
\* joined by "::".
to_cpp_name(qn) == qn.ns \o <<qn.id>>

\* QualifiedName::new_from_cpp_name: split at "::", the last segment is the
\* identifier.
new_from_cpp_name(c) == QN(SubSeq(c, 1, Len(c) - 1), c[Len(c)])

\* QualifiedName::from_type_path: the segments of a type path.
from_type_path(p) == QN(SubSeq(p, 1, Len(p) - 1), p[Len(p)])

\* Identifiers that are not legal for cxx.
IllegalIdents == {"_bindgen_ty_1", "A__bindgen_vtable"}

\* validate_ident_ok_for_cxx(id).is_ok()
validate_ident_ok_for_cxx(id) == id \notin IllegalIdents

\* s.ident.to_string().ends_with("__bindgen_vtable"), over the identifiers
\* of the model.
ends_with_bindgen_vtable(id) == id \in {"A__bindgen_vtable"}

\* known_types().is_known_subtitute_type / is_known_type
KnownSubstituteTypes == {QN(<<>>, "Str")}
KnownTypes == {QN(<<>>, "UniquePtr")}
is_known_subtitute_type(qn) == qn \in KnownSubstituteTypes
is_known_type(qn) == qn \in KnownTypes

(***************************************************************************)
(* Api entries: kind, qualified name and the part of the payload that the  *)
(* pass decides (info).                                                    *)
(***************************************************************************)
Api(kind, qn, info) == [kind |-> kind, name |-> qn, info |-> info]

Names(v) == {to_cpp_name(v[i].name) : i \in 1..Len(v)}

(***************************************************************************)
(* ApiVec: the insertion-ordered collection of Apis, keyed by qualified    *)
(* name.  Pushing an entry retires an entry of the same name (the last     *)
(* write wins) and adds the new entry at the end.                          *)
(***************************************************************************)
ApiVecPush(v, api) == SelectSeq(v, LAMBDA e : e.name # api.name) \o <<api>>

RECURSIVE ApiVecExtend(_, _)
ApiVecExtend(v, more) ==
    IF more = <<>> THEN v
    ELSE ApiVecExtend(ApiVecPush(v, Head(more)), Tail(more))

\* ApiVec::append(&mut more): every entry of more is moved to the end of v.
ApiVecAppend(v, more) == ApiVecExtend(v, more)

(***************************************************************************)
(* The configuration (IncludeCppConfig) and the parse callback results.    *)
(***************************************************************************)
SubclassDom == {<<>>, <<[subclass |-> "S", superclass |-> <<"A">>]>>}
FunsDom ==
    {<<>>,
     <<[ident |-> "f", deps_ok |-> TRUE]>>,
     <<[ident |-> "f", deps_ok |-> TRUE], [ident |-> "g", deps_ok |-> FALSE]>>}
RustTypesDom ==
    {<<>>, << <<"A">> >>, << <<"crate", "R">>, <<"A">>, <<"crate", "R">> >>}
ConcretesDom == {<<>>, <<[cpp_definition |-> "T<int>", rust_id |-> "C"]>>}
BlocklistDom == SUBSET {<<"A">>, <<"a", "A">>}
MustGenerateDom == {<<>>, << <<"A">> >>, << <<"B">>, <<"A">> >>}
ExternsDom == {<<>>, << <<"A">> >>, << <<"B">>, <<"A">> >>, << <<"a", "A">> >>}
PodDom == SUBSET {<<"A">>}
FatalDom == SUBSET {QN(<<>>, "A")}
NestedDom == SUBSET {QN(<<>>, "A")}

ConfigDom ==
    [exclude_utilities : BOOLEAN,
     subclasses : SubclassDom,
     extern_rust_funs : FunsDom,
     rust_types : RustTypesDom,
     concretes : ConcretesDom,
     blocklist : BlocklistDom,
     must_generate : MustGenerateDom,
     externs : ExternsDom,
     pod_requests : PodDom,
     fatal : FatalDom,
     nested : NestedDom]

\* The configuration with nothing configured.
EmptyConfig ==
    [exclude_utilities |-> FALSE, subclasses |-> <<>>, extern_rust_funs |-> <<>>,
     rust_types |-> <<>>, concretes |-> <<>>, blocklist |-> {},
     must_generate |-> <<>>, externs |-> <<>>, pod_requests |-> {},
     fatal |-> {}, nested |-> {}]

\* The configurations of the model: those that differ from the empty one in
\* what the walk reads, in what verification and substitution read, or in
\* what seeding and add_apis_from_config read.
WalkConfigs ==
    {[EmptyConfig EXCEPT !.blocklist = b, !.fatal = f, !.nested = n, !.rust_types = r] :
        b \in BlocklistDom, f \in FatalDom, n \in NestedDom, r \in RustTypesDom}
PostConfigs ==
    {[EmptyConfig EXCEPT !.must_generate = m, !.externs = e, !.pod_requests = p,
                         !.blocklist = b, !.rust_types = r] :
        m \in MustGenerateDom, e \in ExternsDom, p \in PodDom,
        b \in {{}, {<<"A">>}}, r \in {<<>>, << <<"A">> >>}}
MergeConfigs ==
    {[EmptyConfig EXCEPT !.exclude_utilities = x, !.subclasses = s,
                         !.extern_rust_funs = f, !.rust_types = r, !.concretes = c,
                         !.must_generate = m] :
        x \in BOOLEAN, s \in SubclassDom, f \in FunsDom, r \in RustTypesDom,
        c \in ConcretesDom, m \in {<<>>, << <<"A">> >>}}
Configs == WalkConfigs \cup PostConfigs \cup MergeConfigs

\* The configurations in which the struct arm meets a managed type whose
\* identifier is not legal for cxx, besides one whose identifier is.
SkipRustTypesDom ==
    {<<>>, << <<"A">> >>, << <<"crate", "_bindgen_ty_1">> >>,
     << <<"A">>, <<"crate", "_bindgen_ty_1">> >>}
SkipConfigs ==
    {[EmptyConfig EXCEPT !.blocklist = b, !.rust_types = r] :
        b \in BlocklistDom, r \in SkipRustTypesDom}

\* IncludeCppConfig::is_on_blocklist
is_on_blocklist(cpp) == cpp \in config.blocklist

\* RustPath::get_final_ident
get_final_ident(path) == path[Len(path)]

\* IncludeCppConfig::is_rust_type
is_rust_type(id) ==
    \E i \in 1..Len(config.rust_types) : get_final_ident(config.rust_types[i]) = id

\* check_for_fatal_attrs(parse_callback_results, name).err(): "none" or the
\* error the attributes of the type give rise to.
check_for_fatal_attrs(qn) == IF qn \in config.fatal THEN "FatalAttr" ELSE "none"

\* ParseCallbackResults::get_original_name, defaulting to the identifier
\* (ApiName::new_with_cpp_name): the C++ name of the item.
cpp_name(qn) == IF qn \in config.nested THEN <<"Outer", qn.id>> ELSE <<qn.id>>

\* CppEffectiveName::is_nested
is_nested(c) == Len(c) > 1

(***************************************************************************)
(* find_items_in_root over the top-level item list.  A top-level item is   *)
(* the root mod with content, the root mod without content, a mod of       *)
(* another name, or an item that is no mod.                                *)
(***************************************************************************)
TopKinds == {"RootContent", "RootNoContent", "OtherMod", "NonMod"}

TopLists == UNION {[1..n -> TopKinds] : n \in 0..MaxTop}

\* Variant: a mod of another name is passed over.
RECURSIVE find_items_in_root_any_name(_)
find_items_in_root_any_name(items) ==
    IF items = <<>> THEN "None"
    ELSE IF Head(items) = "RootContent" THEN "Some"
    ELSE find_items_in_root_any_name(Tail(items))

RECURSIVE find_items_in_root(_)
find_items_in_root(items) ==
    IF items = <<>> THEN "None"
    ELSE LET item == Head(items) IN
         IF item \in {"RootContent", "RootNoContent", "OtherMod"}
         THEN IF item = "OtherMod" THEN "panic"      \* assert!(ident == "root")
              ELSE IF item = "RootContent" THEN "Some"
              ELSE find_items_in_root(Tail(items))
         ELSE find_items_in_root(Tail(items))

(***************************************************************************)
(* generate_utilities: the fixed utility entries.                          *)
(***************************************************************************)
UtilityApis ==
    <<Api("Utility", QN(<<>>, "autocxx_make_string"), <<>>),
      Api("Utility", QN(<<>>, "autocxx_utility"), <<>>)>>

generate_utilities(v) == ApiVecExtend(v, UtilityApis)

(***************************************************************************)
(* add_apis_from_config                                                    *)
(***************************************************************************)
SubclassApis ==
    [i \in 1..Len(config.subclasses) |->
        Api("Subclass", QN(<<>>, config.subclasses[i].subclass), <<>>)]

\* The loop over extern_rust_funs: pushes a RustFn per function until
\* assemble_extern_fun_deps fails for one.
RECURSIVE add_extern_rust_funs(_, _)
add_extern_rust_funs(v, funs) ==
    IF funs = <<>> THEN [ok |-> TRUE, apis |-> v]
    ELSE IF ~Head(funs).deps_ok THEN [ok |-> FALSE, apis |-> v]
    ELSE add_extern_rust_funs(
             ApiVecPush(v, Api("RustFn", QN(<<>>, Head(funs).ident), <<>>)),
             Tail(funs))

\* rust_types.iter().collect::<IndexSet<_>>(): first occurrences, in order.
RECURSIVE unique_rust_types(_)
unique_rust_types(paths) ==
    IF paths = <<>> THEN <<>>
    ELSE LET init == unique_rust_types(SubSeq(paths, 1, Len(paths) - 1))
             last == paths[Len(paths)]
         IN  IF \E i \in 1..Len(init) : init[i] = last THEN init
             ELSE Append(init, last)

RustTypeApis ==
    LET u == unique_rust_types(config.rust_types) IN
    [i \in 1..Len(u) |-> Api("RustType", QN(<<>>, get_final_ident(u[i])), <<>>)]

ConcreteApis ==
    [i \in 1..Len(config.concretes) |->
        Api("ConcreteType", QN(<<>>, config.concretes[i].rust_id), <<>>)]

\* Variant: a failure of assemble_extern_fun_deps is swallowed.
add_apis_from_config_infallible(v) ==
    LET a == ApiVecExtend(v, SubclassApis)
        b == add_extern_rust_funs(a, config.extern_rust_funs)
    IN  [ok |-> TRUE,
         apis |-> ApiVecExtend(ApiVecExtend(b.apis, RustTypeApis), ConcreteApis)]

\* Variant: the concrete types are added before the managed types.
add_apis_from_config_reordered(v) ==
    LET a == ApiVecExtend(v, SubclassApis)
        b == add_extern_rust_funs(a, config.extern_rust_funs)
    IN  IF ~b.ok THEN b
        ELSE [ok |-> TRUE,
              apis |-> ApiVecExtend(ApiVecExtend(b.apis, ConcreteApis), RustTypeApis)]

add_apis_from_config(v) ==
    LET a == ApiVecExtend(v, SubclassApis)
        b == add_extern_rust_funs(a, config.extern_rust_funs)
    IN  IF ~b.ok THEN b
        ELSE [ok |-> TRUE,
              apis |-> ApiVecExtend(ApiVecExtend(b.apis, RustTypeApis), ConcreteApis)]

(***************************************************************************)
(* confirm_all_generate_directives_obeyed: "ok", or the first directive of *)
(* must_generate_list that no Api is named after.                          *)
(***************************************************************************)
RECURSIVE first_missing(_, _)
first_missing(names, directives) ==
    IF directives = <<>> THEN <<>>
    ELSE IF Head(directives) \notin names THEN <<Head(directives)>>
    ELSE first_missing(names, Tail(directives))

\* The model after substitution; its entries of a name that has an override
\* are the overrides.
AfterSubstitution(v) ==
    LET names == {new_from_cpp_name(config.externs[i]) : i \in 1..Len(config.externs)}
    IN  SelectSeq(v, LAMBDA api : api.name \notin names)
        \o [i \in 1..Len(config.externs) |->
               Api("ExternCppType", new_from_cpp_name(config.externs[i]), <<>>)]

\* Variant: verification looks at the names the model has after substitution.
confirm_after_substitution(v) ==
    first_missing(Names(AfterSubstitution(v)), config.must_generate)

\* Variant: verification looks at the first directive only.
confirm_first_directive(v) ==
    first_missing(Names(v), IF config.must_generate = <<>> THEN <<>>
                            ELSE <<Head(config.must_generate)>>)

confirm_all_generate_directives_obeyed(v) ==
    first_missing(Names(v), config.must_generate)

\* Variant: the entries of the same name are removed, no ExternCppType is
\* inserted.
replace_extern_cpp_types_no_insert(v) ==
    LET names == {new_from_cpp_name(config.externs[i]) : i \in 1..Len(config.externs)}
    IN  SelectSeq(v, LAMBDA api : api.name \notin names)

(***************************************************************************)
(* replace_extern_cpp_types                                                *)
(***************************************************************************)
\* The replacements map: one ExternCppType per distinct qualified name, in
\* the order of the first extern_cpp_type of that name.
RECURSIVE replacements(_)
replacements(externs) ==
    IF externs = <<>> THEN <<>>
    ELSE LET init == replacements(SubSeq(externs, 1, Len(externs) - 1))
             qn == new_from_cpp_name(externs[Len(externs)])
             pod == IF to_cpp_name(qn) \in config.pod_requests THEN "pod" ELSE "nonpod"
             api == Api("ExternCppType", qn, <<pod>>)
         IN  IF \E i \in 1..Len(init) : init[i].name = qn
             THEN [i \in 1..Len(init) |-> IF init[i].name = qn THEN api ELSE init[i]]
             ELSE Append(init, api)

\* Variant: an override takes the position of the entry of its name; the
\* overrides of names the model does not have are added at the end.
replace_extern_cpp_types_in_place(v) ==
    LET r == replacements(config.externs)
        at(n) == CHOOSE k \in 1..Len(r) : r[k].name = n
        swapped == [i \in 1..Len(v) |->
                       IF \E k \in 1..Len(r) : r[k].name = v[i].name
                       THEN r[at(v[i].name)] ELSE v[i]]
    IN  swapped \o SelectSeq(r, LAMBDA x : \A i \in 1..Len(v) : v[i].name # x.name)

replace_extern_cpp_types(v) ==
    LET r == replacements(config.externs)
        kept == SelectSeq(v, LAMBDA api : \A i \in 1..Len(r) : r[i].name # api.name)
    IN  ApiVecExtend(kept, r)

(***************************************************************************)
(* ParseForeignMod, the per-mod collector of foreign functions: it keeps   *)
(* the functions and impl blocks handed to it, and finished appends a      *)
(* Function entry per collected function.                                  *)
(***************************************************************************)
NewParseForeignMod == [funs |-> <<>>, impls |-> <<>>]

convert_foreign_mod_items(conv, batch) == [conv EXCEPT !.funs = @ \o batch]

convert_impl_items(conv, self_ty) == [conv EXCEPT !.impls = Append(@, self_ty)]

finished(conv, ns, v) ==
    ApiVecExtend(v, [i \in 1..Len(conv.funs) |->
                        Api("Function", QN(ns, conv.funs[i]), <<>>)])

(***************************************************************************)
(* parse_item, one operator per arm of its match.  Each returns what the   *)
(* call returned (res: "Ok", an error or "panic"), the identifier of the   *)
(* error's context if it has one (ctx), and self.apis after the call.      *)
(***************************************************************************)
ItemOk(v) == [res |-> "Ok", ctx |-> <<>>, apis |-> v]
ItemErr(e, ctx, v) == [res |-> e, ctx |-> ctx, apis |-> v]

\* A field of a struct: its identifier, if it is named, and whether its
\* type is an rvalue reference.
Field(id) == [ident |-> <<id>>, rref |-> FALSE]
RRefField(id) == [ident |-> <<id>>, rref |-> TRUE]
UnnamedField == [ident |-> <<>>, rref |-> FALSE]

spot_field(fields, desired_id) ==
    \E i \in 1..Len(fields) : fields[i].ident = <<desired_id>>

spot_forward_declaration(fields) == spot_field(fields, "_unused")

spot_zero_length_struct(fields) == spot_field(fields, "_address")

spot_rvalue_reference_fields(fields) ==
    \E i \in 1..Len(fields) : fields[i].rref

\* Variant: a nested name replaces whatever error was pending.
forward_declaration_err_replacing(err, name) ==
    IF is_nested(cpp_name(name)) THEN "ForwardDeclaredNestedType" ELSE err

\* The err a ForwardDeclaration is given.
forward_declaration_err(err, name) ==
    IF err = "none" /\ is_nested(cpp_name(name))
    THEN "ForwardDeclaredNestedType"
    ELSE err

\* Variant: an _address field makes a forward declaration by itself.
is_forward_declaration_any_address(fields, err) ==
    spot_forward_declaration(fields) \/ spot_zero_length_struct(fields)

\* Whether a struct that is not skipped is a forward declaration.
is_forward_declaration(fields, err) ==
    \/ spot_forward_declaration(fields)
    \/ (spot_zero_length_struct(fields) /\ err # "none")

\* Variant: a managed type is skipped in every namespace.
struct_api_rust_type_any_scope(ns, ident, fields) ==
    LET name == QN(ns, ident)
        err == check_for_fatal_attrs(name)
    IN  IF is_rust_type(ident) \/ is_known_type(name)
        THEN <<>>
        ELSE IF is_forward_declaration(fields, err)
        THEN <<Api("ForwardDeclaration", name, <<forward_declaration_err(err, name)>>)>>
        ELSE <<Api("Struct", name,
                   <<IF spot_rvalue_reference_fields(fields) THEN "rvalue" ELSE "plain">>)>>

\* The `api` of the Struct arm: <<>> for None, else the one Api.
struct_api(ns, ident, fields) ==
    LET name == QN(ns, ident)
        err == check_for_fatal_attrs(name)
    IN  IF (ns = <<>> /\ is_rust_type(ident)) \/ is_known_type(name)
        THEN <<>>
        ELSE IF is_forward_declaration(fields, err)
        THEN <<Api("ForwardDeclaration", name, <<forward_declaration_err(err, name)>>)>>
        ELSE <<Api("Struct", name,
                   <<IF spot_rvalue_reference_fields(fields) THEN "rvalue" ELSE "plain">>)>>

\* Variant: no block-list check.
push_always(v, api) == ApiVecPush(v, api)

\* The block-list check before a struct or enum is pushed.
push_unless_blocked(v, api) ==
    IF ~is_on_blocklist(to_cpp_name(api.name)) THEN ApiVecPush(v, api) ELSE v

parse_item_struct(v, ns, ident, fields) ==
    IF ends_with_bindgen_vtable(ident) THEN ItemOk(v)
    ELSE IF ~validate_ident_ok_for_cxx(ident)
    THEN ItemErr("InvalidIdent", <<ident>>, v)
    ELSE IF is_known_subtitute_type(QN(ns, ident)) THEN ItemOk(v)
    ELSE LET api == struct_api(ns, ident, fields) IN
         IF api # <<>> THEN ItemOk(push_unless_blocked(v, api[1])) ELSE ItemOk(v)

parse_item_enum(v, ns, ident) ==
    IF ~validate_ident_ok_for_cxx(ident)
    THEN ItemErr("InvalidIdent", <<ident>>, v)
    ELSE ItemOk(push_unless_blocked(v, Api("Enum", QN(ns, ident), <<>>)))

\* Variant: the new name is taken to be in the root namespace.
use_rename_in_root(v, ns, segs, old_id, new_id) ==
    IF new_id = "bindgen_cchar16_t" THEN ItemOk(v)
    ELSE IF Len(segs) < 2 \/ segs[1] # "self" \/ segs[2] # "super"
    THEN ItemErr("panic", <<>>, v)
    ELSE LET new_tyname == QN(<<>>, new_id)
             old_path == SubSeq(segs, 3, Len(segs)) \o <<old_id>>
             old_tyname == from_type_path(old_path)
         IN  IF new_tyname = old_tyname
             THEN ItemErr("InfinitelyRecursiveTypedef", <<new_id>>, v)
             ELSE ItemOk(ApiVecPush(v, Api("Typedef", QN(ns, new_id),
                                           <<"Use">> \o to_cpp_name(old_tyname))))

\* The Rename leaf of a use tree: segs are the Path segments before it.
use_rename(v, ns, segs, old_id, new_id) ==
    IF new_id = "bindgen_cchar16_t" THEN ItemOk(v)
    ELSE IF Len(segs) < 2 \/ segs[1] # "self" \/ segs[2] # "super"
    THEN ItemErr("panic", <<>>, v)
    ELSE LET new_tyname == QN(ns, new_id)
             old_path == SubSeq(segs, 3, Len(segs)) \o <<old_id>>
             old_tyname == from_type_path(old_path)
         IN  IF new_tyname = old_tyname
             THEN ItemErr("InfinitelyRecursiveTypedef", <<new_id>>, v)
             ELSE ItemOk(ApiVecPush(v, Api("Typedef", QN(ns, new_id),
                                           <<"Use">> \o to_cpp_name(old_tyname))))

parse_item_use(v, ns, segs, leaf, ident, rename) ==
    IF leaf = "Rename" THEN use_rename(v, ns, segs, ident, rename)
    ELSE ItemOk(v)     \* Name "root", and every other leaf

\* Variant: the type has to be a path, and one that ends in a legal
\* identifier.
enum_type_name_valid_paths_only(ty) ==
    ty # <<>> /\ validate_ident_ok_for_cxx(ty[Len(ty)])

\* ty is the path of the constant's type, <<>> if the type is no path.
enum_type_name_valid(ty) ==
    ~(ty # <<>> /\ ~validate_ident_ok_for_cxx(ty[Len(ty)]))

\* The Const entry keeps the item, and with it the path of its type.
parse_item_const(v, ns, ident, ty) ==
    IF enum_type_name_valid(ty)
    THEN ItemOk(ApiVecPush(v, Api("Const", QN(ns, ident), ty)))
    ELSE ItemOk(v)

parse_item_type(v, ns, ident) ==
    ItemOk(ApiVecPush(v, Api("Typedef", QN(ns, ident), <<"Type">>)))

parse_item_other(v) == ItemErr("UnexpectedItemInMod", <<>>, v)

(***************************************************************************)
(* report_any_error: an error that has a context is handed to the sink,    *)
(* which may synthesize an IgnoredItem placeholder (keep) or drop it.      *)
(***************************************************************************)
report_any_error(more_apis, ns, r, keep) ==
    IF r.res # "Ok" /\ r.ctx # <<>> /\ keep
    THEN ApiVecPush(more_apis, Api("IgnoredItem", QN(ns, r.ctx[1]), <<r.res>>))
    ELSE more_apis

(***************************************************************************)
(* The state machine.                                                      *)
(***************************************************************************)
StructIdents == {"A", "_bindgen_ty_1", "A__bindgen_vtable", "Str", "UniquePtr"}
FieldLists ==
    {<<Field("_unused")>>, <<Field("_address")>>, <<Field("x")>>,
     <<RRefField("x"), UnnamedField>>, <<Field("_unused"), Field("x")>>}
EnumIdents == {"A", "_bindgen_ty_1"}
ModIdents == {"a", "b"}
\* The mods declared in a mod at the given depth (1 is the root mod).
ModIdentsAt(depth) == IF depth = 1 THEN {"a"} ELSE ModIdents
UseTree(segs, leaf, ident, rename) ==
    [segs |-> segs, leaf |-> leaf, ident |-> ident, rename |-> rename]
UseTrees ==
    {UseTree(<<"self", "super">>, "Name", "root", ""),
     UseTree(<<"self", "super">>, "Name", "A", ""),
     UseTree(<<"self", "super">>, "Glob", "", ""),
     UseTree(<<"self", "super">>, "Rename", "A", "A"),
     UseTree(<<"self", "super", "a">>, "Rename", "A", "A"),
     UseTree(<<"self", "super">>, "Rename", "A", "B"),
     UseTree(<<"self", "super">>, "Rename", "bindgen_cchar16_t", "bindgen_cchar16_t"),
     UseTree(<<"self">>, "Rename", "A", "B")}
ConstTypes == {<<>>, <<"u32">>, <<"A", "_bindgen_ty_1">>}
TypeIdents == {"A", "B"}
FnBatches == {<<"f">>}

\* Variant: the namespace of a nested mod is its own identifier.
ns_push_from_root(ns, ident) == <<ident>>

\* Namespace::push: the namespace of a mod nested in the mod of namespace ns.
ns_push(ns, ident) == Append(ns, ident)

\* Variant: a nested mod goes on with the collector of its parent.
NewFrameSharing(ns) ==
    [ns |-> ns, more_apis |-> <<>>,
     conv |-> IF stack = <<>> THEN NewParseForeignMod ELSE stack[Len(stack)].conv]

\* The locals of a call of parse_mod_items (lines 195-196).
NewFrame(ns) == [ns |-> ns, more_apis |-> <<>>, conv |-> NewParseForeignMod]

\* No CppPin, no box, nothing on the heap.
PinInit ==
    /\ heap = [a \in 1..MaxAddr |-> "free"]
    /\ boxes = {}
    /\ pin = <<>>
    /\ vended = {}
    /\ src = <<>>
    /\ out = <<>>
    /\ rt = <<>>
    /\ wrote = FALSE

\* The runs with the empty configuration are explored one declaration and one
\* level of nesting further than the others.
TopBound == IF run # 0 THEN MaxRunTop ELSE MaxTop
ItemBound ==
    IF run # 0 THEN MaxRunItems
    ELSE IF config = EmptyConfig THEN MaxItems + 1 ELSE MaxItems
DepthBound == IF config = EmptyConfig THEN MaxDepth + 1 ELSE MaxDepth

Top == stack[Len(stack)]

\* What a run of parse_items has computed so far.
Core == <<pc, apis, rootItems, stack, result, nitems, outcome, errName>>

\* The step was given input l (the declaration handed to parse_item and the
\* decision of the error sink, or the name of the phase).  The first of two
\* runs records it with the state the step leaves; the second run takes the
\* step only if it is the next one of the first run.
Log(l) ==
    IF run = 0 THEN UNCHANGED runVars
    ELSE IF run = 1
    THEN /\ trace' = Append(trace, [label |-> l, state |-> Core'])
         /\ UNCHANGED <<run, pos>>
    ELSE /\ pos <= Len(trace)
         /\ trace[pos].label[1] = l[1]
         /\ trace[pos].label = l
         /\ pos' = pos + 1
         /\ UNCHANGED <<run, trace>>

\* The state in which parse_items is entered with configuration c.
ParseInit(c) ==
    /\ config = c
    /\ pc = "start"
    /\ apis = <<>>
    /\ rootItems = "unset"
    /\ stack = <<>>
    /\ result = "none"
    /\ nitems = 0
    /\ outcome = "running"
    /\ errName = <<>>
    /\ blockedDecls = {}

InitWith(c) ==
    /\ ParseInit(c)
    /\ run = 0
    /\ trace = <<>>
    /\ pos = 1
    /\ PinInit

\* parse_items, line 87: find_items_in_root
FindItemsInRootOf(top) ==
    /\ pc = "start"
    /\ Len(top) <= TopBound
    /\ LET r == find_items_in_root(top) IN
       IF r = "panic"
       THEN /\ outcome' = "panic"
            /\ pc' = "done"
            /\ UNCHANGED rootItems
       ELSE /\ rootItems' = r
            /\ pc' = "seed"
            /\ UNCHANGED outcome
    /\ UNCHANGED <<config, apis, stack, result, nitems, errName, blockedDecls, pinVars>>
    /\ Log(<<"FindItemsInRoot", top>>)

FindItemsInRoot == \E top \in TopLists : FindItemsInRootOf(top)

\* parse_items, lines 88-90
GenerateUtilities ==
    /\ pc = "seed"
    /\ apis' = IF ~config.exclude_utilities THEN generate_utilities(apis) ELSE apis
    /\ pc' = "config"
    /\ UNCHANGED <<config, rootItems, stack, result, nitems, outcome, errName, blockedDecls, pinVars>>
    /\ Log(<<"GenerateUtilities">>)

\* parse_items, lines 91-92
AddApisFromConfig ==
    /\ pc = "config"
    /\ LET r == add_apis_from_config(apis) IN
       IF r.ok
       THEN /\ apis' = r.apis
            /\ pc' = "enter"
            /\ UNCHANGED outcome
       ELSE /\ apis' = r.apis
            /\ outcome' = "Err_Rust"
            /\ pc' = "done"
    /\ UNCHANGED <<config, rootItems, stack, result, nitems, errName, blockedDecls, pinVars>>
    /\ Log(<<"AddApisFromConfig">>)

\* parse_items, lines 93-94: the call of parse_mod_items for the root mod
ParseModItemsRoot ==
    /\ pc = "enter"
    /\ stack' = <<NewFrame(<<>>)>>
    /\ pc' = "walk"
    /\ UNCHANGED <<config, apis, rootItems, result, nitems, outcome, errName, blockedDecls, pinVars>>
    /\ Log(<<"ParseModItemsRoot">>)

\* There is a further item in the mod being walked.
MoreItems ==
    /\ pc = "walk"
    /\ nitems < ItemBound
    /\ (Len(stack) > 1 \/ rootItems = "Some")

\* The sink has a choice only for an error that has a context.
SinkChoices(r) == IF r.res # "Ok" /\ r.ctx # <<>> THEN BOOLEAN ELSE {FALSE}

\* Variant: an error of parse_item ends the walk.
IterationPropagating(r, conv, item) ==
    /\ nitems' = nitems + 1
    /\ result' = r.res
    /\ IF r.res = "panic"
       THEN /\ outcome' = "panic"
            /\ pc' = "done"
            /\ UNCHANGED <<apis, stack>>
       ELSE IF r.res # "Ok"
       THEN /\ pc' = "confirm"
            /\ stack' = <<>>
            /\ UNCHANGED <<apis, outcome>>
       ELSE /\ apis' = r.apis
            /\ stack' = [stack EXCEPT ![Len(stack)] = [@ EXCEPT !.conv = conv]]
            /\ UNCHANGED <<pc, outcome>>
    /\ UNCHANGED <<config, rootItems, errName>>
    /\ Log(Append(item, FALSE))

\* Variant: the placeholder of a failed declaration is added to self.apis
\* at once.
IterationReportingInPlace(r, conv, item) ==
    /\ nitems' = nitems + 1
    /\ result' = r.res
    /\ UNCHANGED <<config, rootItems, errName>>
    /\ IF r.res = "panic"
       THEN /\ outcome' = "panic"
            /\ pc' = "done"
            /\ UNCHANGED <<apis, stack>>
            /\ Log(Append(item, FALSE))
       ELSE /\ stack' = [stack EXCEPT ![Len(stack)] = [@ EXCEPT !.conv = conv]]
            /\ UNCHANGED <<pc, outcome>>
            /\ \E keep \in SinkChoices(r) :
                 /\ apis' = report_any_error(r.apis, Top.ns, r, keep)
                 /\ Log(Append(item, keep))

\* One iteration of the loop of parse_mod_items: parse_item returned r, the
\* collector of the mod is now conv.
Iteration(r, conv, item) ==
    /\ nitems' = nitems + 1
    /\ result' = r.res
    /\ UNCHANGED <<config, rootItems, errName>>
    /\ IF r.res = "panic"
       THEN /\ outcome' = "panic"
            /\ pc' = "done"
            /\ UNCHANGED <<apis, stack>>
            /\ Log(Append(item, FALSE))
       ELSE /\ apis' = r.apis
            /\ UNCHANGED <<pc, outcome>>
            /\ \E keep \in SinkChoices(r) :
                 /\ stack' = [stack EXCEPT ![Len(stack)] =
                                 [@ EXCEPT !.more_apis =
                                               report_any_error(@, Top.ns, r, keep),
                                           !.conv = conv]]
                 /\ Log(Append(item, keep))

\* The history of block-listed struct and enum declarations, after one named
\* ident was handed to parse_item.
Declared(ident) ==
    LET cpp == to_cpp_name(QN(Top.ns, ident)) IN
    IF is_on_blocklist(cpp) THEN blockedDecls \cup {cpp} ELSE blockedDecls

ParseForeignModItem(batch) ==
    /\ MoreItems
    /\ Iteration(ItemOk(apis), convert_foreign_mod_items(Top.conv, batch),
                 <<"ForeignMod", batch>>)
    /\ UNCHANGED <<blockedDecls, pinVars>>

ParseStruct(ident, fields) ==
    /\ MoreItems
    /\ Iteration(parse_item_struct(apis, Top.ns, ident, fields), Top.conv,
                 <<"Struct", ident, fields>>)
    /\ blockedDecls' = Declared(ident)
    /\ UNCHANGED pinVars

ParseEnum(ident) ==
    /\ MoreItems
    /\ Iteration(parse_item_enum(apis, Top.ns, ident), Top.conv, <<"Enum", ident>>)
    /\ blockedDecls' = Declared(ident)
    /\ UNCHANGED pinVars

ParseImpl(self_ty) ==
    /\ MoreItems
    /\ Iteration(ItemOk(apis), convert_impl_items(Top.conv, self_ty), <<"Impl", self_ty>>)
    /\ UNCHANGED <<blockedDecls, pinVars>>

\* Item::Mod with content: parse_mod_items is called for the new namespace.
ParseModContent(ident) ==
    /\ MoreItems
    /\ Len(stack) <= DepthBound
    /\ ident \in ModIdentsAt(Len(stack))
    /\ stack' = Append(stack, NewFrame(ns_push(Top.ns, ident)))
    /\ nitems' = nitems + 1
    /\ result' = "none"
    /\ UNCHANGED <<config, pc, apis, rootItems, outcome, errName, blockedDecls, pinVars>>
    /\ Log(<<"ParseModContent", ident>>)

\* Item::Mod without content
ParseModNoContent ==
    /\ MoreItems
    /\ Iteration(ItemOk(apis), Top.conv, <<"Mod">>)
    /\ UNCHANGED <<blockedDecls, pinVars>>

ParseUse(tree) ==
    /\ MoreItems
    /\ Iteration(parse_item_use(apis, Top.ns, tree.segs, tree.leaf, tree.ident,
                                tree.rename), Top.conv, <<"Use", tree>>)
    /\ UNCHANGED <<blockedDecls, pinVars>>

ParseConst(ident, ty) ==
    /\ MoreItems
    /\ Iteration(parse_item_const(apis, Top.ns, ident, ty), Top.conv,
                 <<"Const", ident, ty>>)
    /\ UNCHANGED <<blockedDecls, pinVars>>

ParseType(ident) ==
    /\ MoreItems
    /\ Iteration(parse_item_type(apis, Top.ns, ident), Top.conv, <<"Type", ident>>)
    /\ UNCHANGED <<blockedDecls, pinVars>>

ParseOther ==
    /\ MoreItems
    /\ Iteration(parse_item_other(apis), Top.conv, <<"Other">>)
    /\ UNCHANGED <<blockedDecls, pinVars>>

\* parse_mod_items, lines 203-204: the items of the mod are exhausted.
EndMod ==
    /\ pc = "walk"
    /\ apis' = finished(Top.conv, Top.ns, ApiVecAppend(apis, Top.more_apis))
    /\ stack' = SubSeq(stack, 1, Len(stack) - 1)
    /\ IF Len(stack) = 1
       THEN pc' = "confirm" /\ UNCHANGED result
       ELSE pc' = pc /\ result' = "Ok"      \* the Item::Mod arm returns Ok
    /\ UNCHANGED <<config, rootItems, nitems, outcome, errName, blockedDecls, pinVars>>
    /\ Log(<<"EndMod">>)

\* parse_items, lines 95-96
ConfirmAllGenerateDirectivesObeyed ==
    /\ pc = "confirm"
    /\ LET missing == confirm_all_generate_directives_obeyed(apis) IN
       IF missing # <<>>
       THEN /\ outcome' = "Err_DidNotGenerateAnything"
            /\ errName' = missing[1]
            /\ pc' = "done"
       ELSE /\ pc' = "replace"
            /\ UNCHANGED <<outcome, errName>>
    /\ UNCHANGED <<config, apis, rootItems, stack, result, nitems, blockedDecls, pinVars>>
    /\ Log(<<"ConfirmAllGenerateDirectivesObeyed">>)

\* Variant: the replacements are added in an order that is not fixed by the
\* configuration (the iteration order of a hashed map).
ReplaceExternCppTypesAnyOrder ==
    /\ pc = "replace"
    /\ LET r == replacements(config.externs)
           kept == SelectSeq(apis, LAMBDA api : \A i \in 1..Len(r) : r[i].name # api.name)
       IN  \E f \in [1..Len(r) -> 1..Len(r)] :
              /\ \A i, j \in 1..Len(r) : i # j => f[i] # f[j]
              /\ apis' = ApiVecExtend(kept, [i \in 1..Len(r) |-> r[f[i]]])
    /\ outcome' = "Ok"
    /\ pc' = "done"
    /\ UNCHANGED <<config, rootItems, stack, result, nitems, errName, blockedDecls, pinVars>>
    /\ Log(<<"ReplaceExternCppTypes">>)

\* parse_items, lines 97-98
ReplaceExternCppTypes ==
    /\ pc = "replace"
    /\ apis' = replace_extern_cpp_types(apis)
    /\ outcome' = "Ok"
    /\ pc' = "done"
    /\ UNCHANGED <<config, rootItems, stack, result, nitems, errName, blockedDecls, pinVars>>
    /\ Log(<<"ReplaceExternCppTypes">>)

Next ==
    \/ FindItemsInRoot
    \/ GenerateUtilities
    \/ AddApisFromConfig
    \/ ParseModItemsRoot
    \/ \E batch \in FnBatches : ParseForeignModItem(batch)
    \/ \E ident \in StructIdents, fields \in FieldLists : ParseStruct(ident, fields)
    \/ \E ident \in EnumIdents : ParseEnum(ident)
    \/ \E self_ty \in {"A"} : ParseImpl(self_ty)
    \/ \E ident \in ModIdents : ParseModContent(ident)
    \/ ParseModNoContent
    \/ \E tree \in UseTrees : ParseUse(tree)
    \/ \E ident \in {"K"}, ty \in ConstTypes : ParseConst(ident, ty)
    \/ \E ident \in TypeIdents : ParseType(ident)
    \/ ParseOther
    \/ EndMod
    \/ ConfirmAllGenerateDirectivesObeyed
    \/ ReplaceExternCppTypes

Init == \E c \in Configs : InitWith(c)

Spec == Init /\ [][Next]_vars

\* The runs whose configuration differs from the empty one only in what the
\* walk reads.
InitWalk == \E c \in WalkConfigs : InitWith(c)

SpecWalk == InitWalk /\ [][Next]_vars

\* parse_items is called again on the same declaration tree with the same
\* configuration (and the same source text and callback results, which are
\* part of it), on a new ParseBindgen (lines 69-78).
SecondRun ==
    /\ run = 1
    /\ pc = "done"
    /\ run' = 2
    /\ pos' = 1
    /\ pc' = "start"
    /\ apis' = <<>>
    /\ rootItems' = "unset"
    /\ stack' = <<>>
    /\ result' = "none"
    /\ nitems' = 0
    /\ outcome' = "running"
    /\ errName' = <<>>
    /\ blockedDecls' = {}
    /\ UNCHANGED <<config, trace, pinVars>>

\* The configurations of the two-run model: each phase has something to do
\* in one of them, and parse_items fails in two of them.
RunConfigs ==
    {[EmptyConfig EXCEPT !.exclude_utilities = TRUE,
                         !.subclasses = <<[subclass |-> "S", superclass |-> <<"A">>]>>,
                         !.concretes = <<[cpp_definition |-> "T<int>", rust_id |-> "C"]>>,
                         !.rust_types = << <<"crate", "R">>, <<"A">>, <<"crate", "R">> >>,
                         !.extern_rust_funs = <<[ident |-> "f", deps_ok |-> TRUE]>>,
                         !.externs = << <<"B">>, <<"A">> >>, !.pod_requests = {<<"A">>},
                         !.blocklist = {<<"a", "A">>}],
     [EmptyConfig EXCEPT !.must_generate = << <<"B">>, <<"A">> >>,
                         !.fatal = {QN(<<>>, "A")}],
     [EmptyConfig EXCEPT !.extern_rust_funs =
          <<[ident |-> "f", deps_ok |-> TRUE], [ident |-> "g", deps_ok |-> FALSE]>>]}

InitRuns ==
    \E c \in RunConfigs :
       /\ ParseInit(c)
       /\ run = 1
       /\ trace = <<>>
       /\ pos = 1
       /\ PinInit

NextRuns == Next \/ SecondRun

SpecRuns == InitRuns /\ [][NextRuns]_vars

\* The runs for the skip checks of the struct arm.
InitSkip == \E c \in SkipConfigs : InitWith(c)

SpecSkip == InitSkip /\ [][Next]_vars

(***************************************************************************)
(* CppPin and the reference wrappers (src/reference_wrapper.rs).  A        *)
(* pointer is an address, 0 being null; a Box is the address of its heap   *)
(* allocation; a CppPin value lives in one of a few places (slots) and can *)
(* be moved between them, the address of slot s being StackAddr(s).        *)
(***************************************************************************)
Null == 0
Addrs == 1..MaxAddr
Ptrs == {Null} \cup Addrs
Values == {"u", "v"}
Slots == 1..MaxSlots
StackAddr(s) == MaxAddr + s

\* What a call returned: a raw pointer or a wrapper around one.
RawPtr(p) == [ty |-> "ptr", ptr |-> p]

\* &T or &mut T, made of a pointer by `&*ptr` or `&mut *ptr`.
RustRef(p) == [ty |-> "ref", ptr |-> p]

\* CppRef<T>(*const T)
CppRef_from_ptr(p) == [ty |-> "CppRef", ptr |-> p]
CppRef_as_ptr(r) == r.ptr

\* CppMutRef<T>(*mut T)
CppMutRef_from_ptr(p) == [ty |-> "CppMutRef", ptr |-> p]
CppMutRef_as_mut_ptr(m) == m.ptr
CppMutRef_as_mut(m) == RustRef(CppMutRef_as_mut_ptr(m))

\* CppRef::const_cast: CppMutRef(self.0 as *mut T)
const_cast(r) == CppMutRef_from_ptr(r.ptr)

\* AsCppRef for CppMutRef: CppRef::from_ptr(self.0 as *const T)
CppMutRef_as_cpp_ref(m) == CppRef_from_ptr(m.ptr)

\* CppPinContents::addr_of / addr_of_mut on the contents a Box points to:
\* the address of its only field, which is the address of the allocation.
addr_of(contents) == contents
addr_of_mut(contents) == contents

\* The CppPin made of a Box<CppPinContents<T>> (lines 400-401 and 419-420):
\* the box and a CppMutRef to its contents; loc is where the value lives,
\* born where it was made.
CppPinOf(contents, s) ==
    [contents |-> contents, ref |-> CppMutRef_from_ptr(addr_of_mut(contents)),
     loc |-> s, born |-> s]

\* transmute::<Box<T>, Box<CppPinContents<T>>> and back: the same allocation.
transmute(b) == b

CppPin_as_ptr(p) == addr_of(p.contents)
CppPin_as_mut_ptr(p) == addr_of_mut(p.contents)
CppPin_as_cpp_ref(p) == CppRef_from_ptr(CppPin_as_ptr(p))
CppPin_as_cpp_mut_ref(p) == CppMutRef_from_ptr(CppPin_as_mut_ptr(p))
CppPin_as_ref(p) == RustRef(CppPin_as_ptr(p))
CppPin_as_mut(p) == RustRef(CppPin_as_mut_ptr(p))
CppPin_deref(p) == p.ref
CppPin_deref_mut(p) == p.ref
CppPin_extract(p) == transmute(p.contents)

Free == {a \in Addrs : heap[a] = "free"}

\* The client makes a Box<T>.
BoxNew(v) ==
    /\ \E a \in Free :
          /\ heap' = [heap EXCEPT ![a] = v]
          /\ boxes' = boxes \cup {a}
    /\ UNCHANGED <<pin, vended, src, out, rt, wrote, parseVars>>

\* CppPin::new(item): the item is moved into a new allocation.
PinNew(v, s) ==
    /\ pin = <<>>
    /\ \E a \in Free :
          /\ heap' = [heap EXCEPT ![a] = v]
          /\ pin' = <<CppPinOf(a, s)>>
    /\ vended' = {}
    /\ src' = <<>>
    /\ out' = <<>>
    /\ rt' = <<>>
    /\ wrote' = FALSE
    /\ UNCHANGED <<boxes, parseVars>>

\* Variant: from_box moves the item into a new allocation and frees the box.
PinFromBoxReallocating(b, s) ==
    /\ pin = <<>>
    /\ b \in boxes
    /\ \E a \in Free :
          /\ heap' = [heap EXCEPT ![a] = heap[b], ![b] = "free"]
          /\ pin' = <<CppPinOf(a, s)>>
    /\ boxes' = boxes \ {b}
    /\ vended' = {}
    /\ src' = <<[addr |-> b, val |-> heap[b]]>>
    /\ out' = <<>>
    /\ rt' = <<>>
    /\ wrote' = FALSE
    /\ UNCHANGED <<parseVars>>

\* CppPin::from_box(item)
PinFromBox(b, s) ==
    /\ pin = <<>>
    /\ b \in boxes
    /\ boxes' = boxes \ {b}
    /\ pin' = <<CppPinOf(transmute(b), s)>>
    /\ vended' = {}
    /\ src' = <<[addr |-> b, val |-> heap[b]]>>
    /\ out' = <<>>
    /\ rt' = <<>>
    /\ wrote' = FALSE
    /\ UNCHANGED <<heap, parseVars>>

\* A call on the CppPin that returns val.
Vend(op, val) ==
    /\ pin # <<>>
    /\ vended' = {[op |-> op, val |-> val]}
    /\ UNCHANGED <<heap, boxes, pin, src, out, rt, wrote, parseVars>>

AsPtr == pin # <<>> /\ Vend("as_ptr", RawPtr(CppPin_as_ptr(pin[1])))
AsMutPtr == pin # <<>> /\ Vend("as_mut_ptr", RawPtr(CppPin_as_mut_ptr(pin[1])))
AsCppRef == pin # <<>> /\ Vend("as_cpp_ref", CppPin_as_cpp_ref(pin[1]))
AsCppMutRef == pin # <<>> /\ Vend("as_cpp_mut_ref", CppPin_as_cpp_mut_ref(pin[1]))
AsRef == pin # <<>> /\ Vend("as_ref", CppPin_as_ref(pin[1]))
AsMut == pin # <<>> /\ Vend("as_mut", CppPin_as_mut(pin[1]))
Deref == pin # <<>> /\ Vend("deref", CppPin_deref(pin[1]))
DerefMut == pin # <<>> /\ Vend("deref_mut", CppPin_deref_mut(pin[1]))

\* *pin.deref_mut() = CppMutRef::from_ptr(p): deref_mut returns &mut self.1,
\* the place of the CppMutRef the CppPin keeps, and safe client code assigns
\* another CppMutRef through it.
DerefMutAssign(p) ==
    /\ pin # <<>>
    /\ pin' = <<[pin[1] EXCEPT !.ref = CppMutRef_from_ptr(p)]>>
    /\ UNCHANGED <<heap, boxes, vended, src, out, rt, wrote, parseVars>>

Live == {a \in Addrs : heap[a] # "free"}

\* The value v is assigned through a &mut T made of the pointer p.  If p is
\* the address of a live allocation the value is stored there.  Otherwise
\* the behaviour is undefined: nothing that is tracked changes, or the value
\* lands in some live allocation.
AssignThrough(r, v) ==
    /\ \E a \in (IF r.ptr \in Live THEN {r.ptr} ELSE {Null} \cup Live) :
          /\ heap' = IF a = Null THEN heap ELSE [heap EXCEPT ![a] = v]
          /\ wrote' = (wrote \/ (pin # <<>> /\ a = pin[1].contents))
    /\ UNCHANGED <<boxes, pin, vended, src, out, rt, parseVars>>

\* unsafe { *pin.as_mut() = v }: as_mut returns `&mut *self.as_mut_ptr()`, a
\* Rust reference to the contents, and the client assigns through it.
AsMutAssign(v) ==
    /\ pin # <<>>
    /\ AssignThrough(CppPin_as_mut(pin[1]), v)

\* unsafe { *r.as_mut() = v } for the CppMutRef r the latest call returned:
\* CppMutRef::as_mut returns `&mut *self.as_mut_ptr()`.
CppMutRefAsMutAssign(v) ==
    \E r \in vended :
       /\ r.val.ty = "CppMutRef"
       /\ AssignThrough(CppMutRef_as_mut(r.val), v)

\* The CppPin value is moved to another place: its two fields are copied.
Move(s) ==
    /\ pin # <<>>
    /\ s # pin[1].loc
    /\ pin' = <<[pin[1] EXCEPT !.loc = s]>>
    /\ UNCHANGED <<heap, boxes, vended, src, out, rt, wrote, parseVars>>

\* CppPin::extract(self)
Extract ==
    /\ pin # <<>>
    /\ LET b == CppPin_extract(pin[1]) IN
          /\ out' = <<[addr |-> b, val |-> heap[b]]>>
          /\ boxes' = boxes \cup {b}
    /\ pin' = <<>>
    /\ UNCHANGED <<heap, vended, src, rt, wrote, parseVars>>

\* CppRef::from_ptr(p).const_cast().as_cpp_ref().as_ptr()
RoundTrip(p) ==
    /\ pin = <<>>
    /\ rt' = <<[in |-> p,
                out |-> CppRef_as_ptr(CppMutRef_as_cpp_ref(const_cast(CppRef_from_ptr(p))))]>>
    /\ UNCHANGED <<heap, boxes, pin, vended, src, out, wrote, parseVars>>

NextPin ==
    \/ \E v \in Values : BoxNew(v)
    \/ \E v \in Values, s \in Slots : PinNew(v, s)
    \/ \E b \in Addrs, s \in Slots : PinFromBox(b, s)
    \/ AsPtr
    \/ AsMutPtr
    \/ AsCppRef
    \/ AsCppMutRef
    \/ AsRef
    \/ AsMut
    \/ Deref
    \/ DerefMut
    \/ \E v \in Values : AsMutAssign(v)
    \/ \E v \in Values : CppMutRefAsMutAssign(v)
    \/ \E p \in Ptrs : DerefMutAssign(p)
    \/ \E s \in Slots : Move(s)
    \/ Extract
    \/ \E p \in Ptrs : RoundTrip(p)

InitPin == InitWith(EmptyConfig)

SpecPin == InitPin /\ [][NextPin]_vars

(***************************************************************************)
(* Properties                                                              *)
(***************************************************************************)
MustGenerate == {config.must_generate[i] : i \in 1..Len(config.must_generate)}

ExternNames == {new_from_cpp_name(config.externs[i]) : i \in 1..Len(config.externs)}

\* C1 as stated: the pass fails with DidNotGenerateAnything if and only if a
\* must-generate name is absent from the names of the model as it stands
\* after replace_extern_cpp_types.
C1_VerifiesFinalModel ==
    (pc = "done" /\ outcome \in {"Ok", "Err_DidNotGenerateAnything"})
    => ((outcome = "Err_DidNotGenerateAnything")
        <=> (\E g \in MustGenerate :
                g \notin Names(IF outcome = "Ok" THEN apis
                               ELSE replace_extern_cpp_types(apis))))

\* C1, amended: must-generate verification is evaluated once, after the walk
\* and before native-type-override substitution, over the names of the model
\* as it stands before replace_extern_cpp_types: substitution is reached only
\* if every must-generate name is among them, and the pass fails with
\* DidNotGenerateAnything naming a directive that is not among them.
C1_VerifiesBeforeSubstitution ==
    /\ pc = "replace" => \A g \in MustGenerate : g \in Names(apis)
    /\ outcome = "Err_DidNotGenerateAnything"
       => (pc = "done" /\ errName \in MustGenerate /\ errName \notin Names(apis))
    /\ pc = "confirm" => outcome = "running"

\* C1 witness: the pass has failed for a must-generate name that a native-type
\* override supplies.
C1_Witness ==
    /\ outcome = "Err_DidNotGenerateAnything"
    /\ new_from_cpp_name(errName) \in ExternNames
    /\ nitems > 0

\* C2: whenever parse_items returns Ok, the names of the returned model are a
\* superset of the must-generate set.
C2_MustGenerateSuperset ==
    outcome = "Ok" => \A g \in MustGenerate : g \in Names(apis)

\* C2 witness: Ok was returned with two must-generate names, one of which is
\* the name of an override in the returned model.
C2_Witness ==
    /\ outcome = "Ok"
    /\ Len(config.must_generate) = 2
    /\ \E i \in 1..Len(apis) :
          /\ apis[i].kind = "ExternCppType"
          /\ to_cpp_name(apis[i].name) \in MustGenerate

\* C3 as stated: once parse_items has returned Ok, the model has no entry, of
\* any variant, named like a struct or enum declaration of the tree whose
\* name is on the block list.
C3_NoEntryOfAnyVariant ==
    outcome = "Ok" => \A n \in blockedDecls : n \notin Names(apis)

\* C3, amended: the model never has a Struct, ForwardDeclaration or Enum
\* entry whose name is on the block list (entries of other variants, such as
\* a native-type override, a config-derived entry or a typedef of that name,
\* may be present).
C3_NoBlockedStructOrEnum ==
    \A i \in 1..Len(apis) :
        apis[i].kind \in {"Struct", "ForwardDeclaration", "Enum"}
        => ~is_on_blocklist(to_cpp_name(apis[i].name))

\* C3 witness: a block-listed struct or enum was declared in a nested mod and
\* the pass has returned Ok.
C3_Witness ==
    /\ outcome = "Ok"
    /\ <<"a", "A">> \in blockedDecls

\* C4: in the model parse_items returns there is, for every name of the
\* native-type-override configuration, exactly one entry of that name, it is
\* an ExternCppType and its pod flag is set exactly when the name is in the
\* plain-old-data request set.
C4_OverrideSupersedes ==
    outcome = "Ok" =>
        \A qn \in ExternNames :
            /\ Cardinality({i \in 1..Len(apis) : apis[i].name = qn}) = 1
            /\ \A i \in 1..Len(apis) :
                  apis[i].name = qn =>
                     /\ apis[i].kind = "ExternCppType"
                     /\ apis[i].info = <<"pod">> <=> to_cpp_name(qn) \in config.pod_requests
                     /\ apis[i].info \in {<<"pod">>, <<"nonpod">>}

\* C4 witness: Ok was returned with an override for A that is plain old data,
\* A being a configured managed type as well, after two declarations.
C4_Witness ==
    /\ outcome = "Ok"
    /\ nitems = 2
    /\ config.rust_types # <<>>
    /\ \E i \in 1..Len(apis) :
          /\ apis[i] = Api("ExternCppType", QN(<<>>, "A"), <<"pod">>)

ItemErrors == {"InvalidIdent", "InfinitelyRecursiveTypedef", "UnexpectedItemInMod"}

\* C5: when parse_item fails for a declaration, self.apis, the collector and
\* the namespace of the mod and every enclosing mod are as they were before
\* the declaration (the sink may have added a placeholder to more_apis), and
\* the walk goes on with the next item of the same mod: what later
\* declarations produce is as if the failing one had been absent.
C5_ErrorIsolation ==
    [][(pc = "walk" /\ nitems' = nitems + 1 /\ result' \in ItemErrors)
       => /\ pc' = "walk"
          /\ outcome' = "running"
          /\ apis' = apis
          /\ Len(stack') = Len(stack)
          /\ \A k \in 1..(Len(stack) - 1) : stack'[k] = stack[k]
          /\ stack'[Len(stack)].ns = Top.ns
          /\ stack'[Len(stack)].conv = Top.conv
          /\ \A i \in 1..Len(stack'[Len(stack)].more_apis) :
                stack'[Len(stack)].more_apis[i].kind = "IgnoredItem"]_vars

\* C5 witness: a declaration failed in the root mod, the sink kept a
\* placeholder, and a later sibling was processed and pushed its entry.
C5_Witness ==
    /\ pc = "walk"
    /\ result = "Ok"
    /\ nitems = 2
    /\ Len(stack) = 1
    /\ Top.more_apis # <<>>
    /\ \E i \in 1..Len(apis) : apis[i].kind \in {"Struct", "Enum", "Typedef", "Const"}

\* C6 as stated: parse_items ends either with Ok or with the
\* directive-violation error.
C6_OnlyDirectiveViolationFails ==
    pc = "done" => outcome \in {"Ok", "Err_DidNotGenerateAnything"}

AllDepsOk ==
    \A i \in 1..Len(config.extern_rust_funs) : config.extern_rust_funs[i].deps_ok

\* C6, amended: parse_items ends with Ok, with the error of dependency
\* scanning of an exported managed-side function (ConvertError::Rust, from
\* add_apis_from_config, before the walk), with the directive-violation error
\* of must-generate verification, or by a panic of an assertion of
\* find_items_in_root or of the rename arm of parse_item; utility seeding,
\* substitution and the errors parse_item returns never make the pass fail.
C6_PassFailures ==
    /\ pc = "done"
       <=> outcome \in {"Ok", "Err_Rust", "Err_DidNotGenerateAnything", "panic"}
    /\ outcome = "Err_Rust" <=> (pc = "done" /\ stack = <<>> /\ nitems = 0
                                 /\ rootItems # "unset" /\ ~AllDepsOk)
    /\ pc \in {"enter", "walk", "confirm", "replace"} => AllDepsOk
    /\ outcome = "Err_DidNotGenerateAnything"
       => (errName \in MustGenerate /\ errName \notin Names(apis))
    /\ outcome = "panic" => (rootItems = "unset" \/ result = "panic")
    /\ (pc = "done" /\ result \in ItemErrors)
       => outcome \in {"Ok", "Err_DidNotGenerateAnything"}

\* C6 witness: the pass has failed with the error of dependency scanning.
C6_Witness ==
    /\ outcome = "Err_Rust"
    /\ Len(config.extern_rust_funs) = 2

\* The use tree is a rename, its path starts with self::super, and what
\* follows equals the new qualified name in namespace ns.
SelfReferential(tree, ns) ==
    /\ tree.leaf = "Rename"
    /\ Len(tree.segs) >= 2
    /\ tree.segs[1] = "self"
    /\ tree.segs[2] = "super"
    /\ SubSeq(tree.segs, 3, Len(tree.segs)) \o <<tree.ident>> = ns \o <<tree.rename>>

\* C7 as stated: for every self-referential rename, whatever its target,
\* parse_item returns InfinitelyRecursiveTypedef and pushes nothing.
C7_EverySelfRenameRejected ==
    [][\A tree \in UseTrees :
          (ParseUse(tree) /\ SelfReferential(tree, Top.ns))
          => (result' = "InfinitelyRecursiveTypedef" /\ apis' = apis)]_vars

\* C7, amended: for every self-referential rename whose target is not
\* bindgen_cchar16_t, parse_item returns InfinitelyRecursiveTypedef and pushes
\* nothing; a rename to bindgen_cchar16_t returns Ok and pushes nothing,
\* self-referential or not.
C7_SelfRenameRejected ==
    [][\A tree \in UseTrees :
          (ParseUse(tree) /\ SelfReferential(tree, Top.ns))
          => /\ apis' = apis
             /\ result' = IF tree.rename = "bindgen_cchar16_t" THEN "Ok"
                          ELSE "InfinitelyRecursiveTypedef"]_vars

\* C7 witness: a rename inside a nested mod was rejected as infinitely
\* recursive.
C7_Witness ==
    /\ result = "InfinitelyRecursiveTypedef"
    /\ Len(stack) = 2

HasField(fields, id) == \E i \in 1..Len(fields) : fields[i].ident = <<id>>

\* C8: a struct that is skipped (vtable suffix, illegal identifier, known
\* substitute type, managed type at the root, known type) or block-listed
\* pushes nothing; any other struct pushes one entry of its name, which is a
\* ForwardDeclaration exactly when it has an _unused field, or an _address
\* field together with a pending fatal-attribute error, and a Struct
\* otherwise.  So a struct whose only field is _unused is never pushed as a
\* Struct.
C8_ForwardDeclarationDetection ==
    [][\A ident \in StructIdents, fields \in FieldLists :
          (pc = "walk" /\ nitems' = nitems + 1 /\ ParseStruct(ident, fields)) =>
             LET name == QN(Top.ns, ident)
                 skipped == \/ ident = "A__bindgen_vtable"
                            \/ ident \in IllegalIdents
                            \/ name \in KnownSubstituteTypes \cup KnownTypes
                            \/ (Top.ns = <<>> /\ is_rust_type(ident))
                 blocked == to_cpp_name(name) \in config.blocklist
                 forward == \/ HasField(fields, "_unused")
                            \/ (HasField(fields, "_address") /\ name \in config.fatal)
             IN  IF skipped \/ blocked THEN apis' = apis
                 ELSE /\ apis' # <<>>
                      /\ apis'[Len(apis')].name = name
                      /\ apis'[Len(apis')].kind =
                            IF forward THEN "ForwardDeclaration" ELSE "Struct"
                      /\ SubSeq(apis', 1, Len(apis') - 1)
                            = SelectSeq(apis, LAMBDA e : e.name # name)]_vars

\* C8 witness: the model holds a ForwardDeclaration made for a struct with an
\* _address field and a pending fatal-attribute error.
C8_Witness ==
    /\ pc = "walk"
    /\ \E i \in 1..Len(apis) :
          apis[i] = Api("ForwardDeclaration", QN(<<>>, "A"), <<"FatalAttr">>)

\* C9 as stated: every ForwardDeclaration whose C++ name is nested carries
\* the ForwardDeclaredNestedType error, whether or not a fatal-attribute
\* error was pending.
C9_NestedErrorAlways ==
    \A i \in 1..Len(apis) :
        (apis[i].kind = "ForwardDeclaration" /\ is_nested(cpp_name(apis[i].name)))
        => apis[i].info = <<"ForwardDeclaredNestedType">>

\* C9, amended: a ForwardDeclaration whose C++ name is nested carries the
\* ForwardDeclaredNestedType error when no fatal-attribute error was pending
\* for the struct; when one was pending the entry keeps that error.  A
\* ForwardDeclaration whose name is not nested carries the pending error, if
\* any.
C9_NestedErrorUnlessPending ==
    \A i \in 1..Len(apis) :
        apis[i].kind = "ForwardDeclaration"
        => apis[i].info =
              IF apis[i].name \in config.fatal THEN <<"FatalAttr">>
              ELSE IF apis[i].name \in config.nested
              THEN <<"ForwardDeclaredNestedType">>
              ELSE <<"none">>

\* C9 witness: the model holds a ForwardDeclaration of nested name that
\* carries the ForwardDeclaredNestedType error.
C9_Witness ==
    \E i \in 1..Len(apis) :
        /\ apis[i].kind = "ForwardDeclaration"
        /\ apis[i].name \in config.nested
        /\ apis[i].info = <<"ForwardDeclaredNestedType">>

\* The phase an entry of the given kind comes from: 0 utilities, 1..4 the
\* config-derived entries in the order of add_apis_from_config, 5 the walk.
Phase(kind) ==
    IF kind = "Utility" THEN 0
    ELSE IF kind = "Subclass" THEN 1
    ELSE IF kind = "RustFn" THEN 2
    ELSE IF kind = "RustType" THEN 3
    ELSE IF kind = "ConcreteType" THEN 4
    ELSE 5

Ids(v, kind) ==
    LET w == SelectSeq(v, LAMBDA e : e.kind = kind) IN
    [i \in 1..Len(w) |-> w[i].name.id]

FirstIndex(seq, x) == CHOOSE i \in 1..Len(seq) : seq[i] = x /\ \A j \in 1..(i - 1) : seq[j] # x

RustTypeIdents == [i \in 1..Len(config.rust_types) |-> config.rust_types[i][Len(config.rust_types[i])]]

\* C10: from the start of the walk to its end the entries are in phase
\* order (utilities, subclasses, exported functions, managed types, concrete
\* types, entries of parsed declarations) and the utility entries are there
\* exactly when exclude_utilities is false; when the walk starts the
\* config-derived entries are those of the configuration, the managed types
\* once each in the order of their first occurrence; with no declaration and
\* the empty configuration the model is the utility entries.
C10_PhaseOrder ==
    /\ pc \in {"enter", "walk", "confirm"} =>
          /\ \A i, j \in 1..Len(apis) :
                i < j => Phase(apis[i].kind) <= Phase(apis[j].kind)
          /\ SelectSeq(apis, LAMBDA e : e.kind = "Utility")
                = IF config.exclude_utilities THEN <<>> ELSE UtilityApis
    /\ pc = "enter" =>
          /\ \A i \in 1..Len(apis) : Phase(apis[i].kind) < 5 /\ apis[i].name.ns = <<>>
          /\ Ids(apis, "Subclass")
                = [i \in 1..Len(config.subclasses) |-> config.subclasses[i].subclass]
          /\ Ids(apis, "RustFn")
                = [i \in 1..Len(config.extern_rust_funs) |-> config.extern_rust_funs[i].ident]
          /\ Ids(apis, "ConcreteType")
                = [i \in 1..Len(config.concretes) |-> config.concretes[i].rust_id]
          /\ LET r == Ids(apis, "RustType") IN
                /\ {r[i] : i \in 1..Len(r)}
                      = {RustTypeIdents[i] : i \in 1..Len(RustTypeIdents)}
                /\ \A i, j \in 1..Len(r) :
                      i < j => FirstIndex(RustTypeIdents, r[i]) < FirstIndex(RustTypeIdents, r[j])
    /\ (pc = "confirm" /\ nitems = 0 /\ config = EmptyConfig) => apis = UtilityApis

\* C10 witness: the walk has ended with utilities, entries of all four
\* config-derived kinds and an entry of a parsed declaration in the model.
C10_Witness ==
    /\ pc = "confirm"
    /\ \A k \in 0..5 : \E i \in 1..Len(apis) : Phase(apis[i].kind) = k
    /\ Len(Ids(apis, "RustType")) = 2

\* C11: the namespaces of the mods being walked nest as prefixes, the root's
\* being empty and each nested mod's being its parent's extended by the
\* mod's identifier; every entry a step of the walk adds to the model, and
\* every placeholder kept for a mod, carries the namespace of the mod whose
\* declaration is being processed; when a nested mod ends, the walk is back
\* in the parent's namespace.
C11_NamespaceThreading ==
    /\ [](\A k \in 1..Len(stack) :
             /\ Len(stack[k].ns) = k - 1
             /\ k > 1 => stack[k - 1].ns = SubSeq(stack[k].ns, 1, k - 2)
             /\ \A i \in 1..Len(stack[k].more_apis) :
                   stack[k].more_apis[i].name.ns = stack[k].ns)
    /\ [][pc = "walk" =>
             /\ \A i \in 1..Len(apis') :
                   (\A j \in 1..Len(apis) : apis[j] # apis'[i])
                   => apis'[i].name.ns = Top.ns
             /\ \A ident \in ModIdents :
                   ParseModContent(ident)
                   => stack'[Len(stack')].ns = Top.ns \o <<ident>>
             /\ (Len(stack') = Len(stack) - 1 /\ Len(stack') > 0)
                   => stack'[Len(stack')].ns = stack[Len(stack) - 1].ns]_vars

\* C11 witness: the walk is back in the root mod and the model holds the
\* Struct entry of a struct A declared in mod a::b, with namespace a::b.
C11_Witness ==
    /\ pc = "walk"
    /\ Len(stack) = 1
    /\ Cardinality({i \in 1..Len(apis) : apis[i].name.id = "A"}) = 1
    /\ \E i \in 1..Len(apis) :
          apis[i] = Api("Struct", QN(<<"a", "b">>, "A"), <<"plain">>)

\* The names of the Function entries the collector of the innermost mod
\* gives rise to.
CollectedNames ==
    {QN(Top.ns, Top.conv.funs[i]) : i \in 1..Len(Top.conv.funs)}

\* C12: every mod that is walked starts with a fresh collector; a step of
\* the walk leaves the collectors of the enclosing mods alone, a batch of
\* foreign functions or an impl block being added to the collector of the mod
\* it is declared in only; Function entries enter the model only when a mod
\* ends, which is when its collector is finished and the mod is left, and
\* they are then the last entries of the model, after the placeholders of
\* the mod and the entries the model had (those of the mod and of the mods
\* nested in it among them); when the walk is over no mod is left unfinished.
C12_CollectorProtocol ==
    /\ [](pc \in {"confirm", "replace"} \/ outcome \in {"Ok", "Err_DidNotGenerateAnything"}
          => stack = <<>>)
    /\ [][pc = "walk" =>
             /\ \A k \in 1..(Len(stack) - 1) : stack'[k].conv = stack[k].conv
             /\ Len(stack') = Len(stack) + 1
                => /\ stack'[Len(stack')].conv = NewParseForeignMod
                   /\ stack'[Len(stack)] = stack[Len(stack)]
                   /\ apis' = apis
             /\ \A batch \in FnBatches :
                   ParseForeignModItem(batch)
                   => /\ stack'[Len(stack)].conv.funs = Top.conv.funs \o batch
                      /\ stack'[Len(stack)].conv.impls = Top.conv.impls
                      /\ apis' = apis
             /\ ParseImpl("A")
                => /\ stack'[Len(stack)].conv.impls = Append(Top.conv.impls, "A")
                   /\ stack'[Len(stack)].conv.funs = Top.conv.funs
                   /\ apis' = apis
             /\ Len(stack') >= Len(stack)
                => SelectSeq(apis', LAMBDA e : e.kind = "Function")
                      = SelectSeq(apis, LAMBDA e : e.kind = "Function")
             /\ Len(stack') = Len(stack) - 1
                => LET n == Cardinality(CollectedNames) IN
                   /\ Len(apis') >= n
                   /\ \A i \in 1..Len(apis') :
                         i > Len(apis') - n
                         <=> (apis'[i].kind = "Function" /\ apis'[i].name \in CollectedNames)
                   /\ \A i \in 1..Len(Top.more_apis) :
                         \E j \in 1..(Len(apis') - n) : apis'[j] = Top.more_apis[i]
                   /\ \A i \in 1..Len(apis) :
                         (/\ apis[i].name \notin CollectedNames
                          /\ \A k \in 1..Len(Top.more_apis) :
                                Top.more_apis[k].name # apis[i].name)
                         => \E j \in 1..(Len(apis') - n) : apis'[j] = apis[i]]_vars

\* C12 witness: the walk is over; the Function entry of a function declared
\* in mod a precedes the Function entry of a function declared in the root
\* mod before mod a.
C12_Witness ==
    /\ pc = "confirm"
    /\ nitems = 3
    /\ \E i, j \in 1..Len(apis) :
          /\ i < j
          /\ j = Len(apis)
          /\ apis[i] = Api("Function", QN(<<"a">>, "f"), <<>>)
          /\ apis[j] = Api("Function", QN(<<>>, "f"), <<>>)

\* C14 as stated: a constant declaration yields a Const entry if and only if
\* its type is a path that ends in a legal identifier; parse_item returns Ok
\* and no placeholder is made.
C14_ConstIffLegalIdentifier ==
    [][\A ty \in ConstTypes :
          (pc = "walk" /\ nitems' = nitems + 1 /\ ParseConst("K", ty))
          => /\ result' = "Ok"
             /\ stack'[Len(stack)].more_apis = Top.more_apis
             /\ IF ty # <<>> /\ ty[Len(ty)] \notin IllegalIdents
                THEN apis' # apis /\ apis'[Len(apis')] = Api("Const", QN(Top.ns, "K"), ty)
                ELSE apis' = apis]_vars

\* C14, amended: a constant declaration yields a Const entry unless its type
\* is a path that ends in an illegal identifier, so a constant whose type is
\* no path (a reference, an array, a pointer) yields a Const entry as well;
\* in every case parse_item returns Ok and no placeholder is made.
C14_ConstUnlessIllegalPath ==
    [][\A ty \in ConstTypes :
          (pc = "walk" /\ nitems' = nitems + 1 /\ ParseConst("K", ty))
          => /\ result' = "Ok"
             /\ stack'[Len(stack)].more_apis = Top.more_apis
             /\ IF ty # <<>> /\ ty[Len(ty)] \in IllegalIdents
                THEN apis' = apis
                ELSE /\ apis'[Len(apis')] = Api("Const", QN(Top.ns, "K"), ty)
                     /\ SubSeq(apis', 1, Len(apis') - 1)
                           = SelectSeq(apis, LAMBDA e : e.name # QN(Top.ns, "K"))]_vars

\* C14 witness: a constant whose type is no path was declared in mod a after
\* another declaration and its Const entry is the last entry of the model.
C14_Witness ==
    /\ pc = "walk"
    /\ result = "Ok"
    /\ nitems = 2
    /\ apis # <<>>
    /\ apis[Len(apis)] = Api("Const", QN(<<"a">>, "K"), <<>>)

Has(top, kind) == \E i \in 1..Len(top) : top[i] = kind

ConfigKinds ==
    {"Utility", "Subclass", "RustFn", "RustType", "ConcreteType", "ExternCppType"}

\* C15 as stated: for every top-level item list without a root mod that has
\* content, whatever else it holds, find_items_in_root finds no items and
\* the pass goes on.
C15_AbsentRootNeverAborts ==
    [][\A top \in TopLists :
          (~Has(top, "RootContent") /\ FindItemsInRootOf(top))
          => (outcome' = "running" /\ rootItems' = "None")]_vars

\* C15, amended: for a top-level item list without a root mod that has
\* content, the pass panics in find_items_in_root when the list holds a mod
\* of another name; otherwise (the list holds only items that are no mods and
\* root mods without content) no items are found and the pass goes on, no
\* declaration is handed to parse_item, and the model holds only utility,
\* config-derived and override entries.
C15_AbsentRootUnlessOtherMod ==
    /\ [][\A top \in TopLists :
             (~Has(top, "RootContent") /\ FindItemsInRootOf(top))
             => IF Has(top, "OtherMod")
                THEN outcome' = "panic" /\ pc' = "done" /\ apis' = apis
                ELSE outcome' = "running" /\ rootItems' = "None" /\ pc' = "seed"]_vars
    /\ [](rootItems = "None"
          => /\ nitems = 0
             /\ outcome # "panic"
             /\ Len(stack) <= 1
             /\ \A i \in 1..Len(apis) : apis[i].kind \in ConfigKinds
             /\ \A k \in 1..Len(stack) : stack[k] = NewFrame(<<>>))

\* C15 witness: Ok was returned for an item list without a root mod, the
\* model holding utility, config-derived and override entries.
C15_Witness ==
    /\ outcome = "Ok"
    /\ rootItems = "None"
    /\ \E i, j, k \in 1..Len(apis) :
          /\ apis[i].kind = "Utility"
          /\ apis[j].kind = "RustType"
          /\ apis[k].kind = "ExternCppType"

ExternQNs == [i \in 1..Len(config.externs) |-> new_from_cpp_name(config.externs[i])]

C19_SubstitutionInPlace ==
    [][pc = "replace" =>
          \A i \in 1..Len(apis) :
             /\ i <= Len(apis')
             /\ IF apis[i].name \in ExternNames
                THEN apis'[i].kind = "ExternCppType" /\ apis'[i].name = apis[i].name
                ELSE apis'[i] = apis[i]]_vars

\* C19, amended: substitution removes the entries whose name has an override
\* and adds the overrides after all the entries it keeps, wherever the
\* entries they supersede were; the entries whose name has no override are
\* unchanged and keep their order among themselves, and the overrides are in
\* the order of the first occurrence of their names in the configuration.
C19_SubstitutionAtEnd ==
    [][pc = "replace" =>
          LET keptAt == {i \in 1..Len(apis) : apis[i].name \notin ExternNames}
              m == Cardinality(keptAt)
          IN  /\ Len(apis') = m + Cardinality(ExternNames)
              /\ \A i \in 1..Len(apis') : i > m <=> apis'[i].name \in ExternNames
              /\ \A i \in keptAt :
                    apis'[Cardinality({j \in keptAt : j <= i})] = apis[i]
              /\ \A i, j \in (m + 1)..Len(apis') :
                    i < j => FirstIndex(ExternQNs, apis'[i].name)
                                < FirstIndex(ExternQNs, apis'[j].name)]_vars

\* C19 witness: Ok was returned with the override of A as the last entry,
\* after the alias B of the one declaration processed; A is a configured
\* managed type, whose entry preceded the alias before substitution.
C19_Witness ==
    /\ outcome = "Ok"
    /\ nitems = 1
    /\ is_rust_type("A")
    /\ Len(apis) >= 2
    /\ apis[Len(apis)].kind = "ExternCppType"
    /\ apis[Len(apis)].name = QN(<<>>, "A")
    /\ apis[Len(apis) - 1] = Api("Typedef", QN(<<>>, "B"), <<"Type">>)

WalkKinds == {"Struct", "ForwardDeclaration", "Enum", "Typedef", "Const"}

\* A declaration of the innermost mod has just failed and the sink has kept
\* a placeholder for it.
PlaceholderKept ==
    /\ pc = "walk"
    /\ nitems' = nitems + 1
    /\ result' \in ItemErrors
    /\ Len(stack') = Len(stack)
    /\ stack'[Len(stack)].more_apis # Top.more_apis

\* C20 as stated: the entry of a declaration, a placeholder included, enters
\* the model when the declaration is processed, after the entries of the
\* earlier siblings and before those of the later ones.
C20_SiblingOrderWithPlaceholders ==
    [][/\ (pc = "walk" /\ nitems' = nitems + 1 /\ result' = "Ok"
           /\ Len(stack') = Len(stack) /\ apis' # apis)
          => apis'[Len(apis')].kind \in WalkKinds
       /\ PlaceholderKept
          => (apis' # <<>> /\ apis'[Len(apis')].kind = "IgnoredItem")]_vars

\* C20, amended: an entry pushed by parse_item goes to the end of the model
\* when its declaration is processed, so these entries are in the order of
\* their declarations; a placeholder is set aside in more_apis and the model
\* is as it was; when the mod ends its placeholders are added in the order
\* of their declarations after everything the model holds, entries of later
\* siblings and of nested mods included, and the Function entries of the mod
\* follow them.
C20_SiblingOrderOfPushedEntries ==
    [][/\ (pc = "walk" /\ nitems' = nitems + 1 /\ result' = "Ok"
           /\ Len(stack') = Len(stack) /\ apis' # apis)
          => /\ apis'[Len(apis')].kind \in WalkKinds
             /\ SubSeq(apis', 1, Len(apis') - 1)
                   = SelectSeq(apis, LAMBDA e : e.name # apis'[Len(apis')].name)
             /\ stack'[Len(stack)].more_apis = Top.more_apis
       /\ (pc = "walk" /\ nitems' = nitems + 1 /\ result' \in ItemErrors)
          => apis' = apis
       /\ PlaceholderKept
          => LET more == stack'[Len(stack)].more_apis
                 p == more[Len(more)]
             IN  /\ p.kind = "IgnoredItem"
                 /\ p.info = <<result'>>
                 /\ SubSeq(more, 1, Len(more) - 1)
                       = SelectSeq(Top.more_apis, LAMBDA e : e.name # p.name)
       /\ (pc = "walk" /\ Len(stack') = Len(stack) - 1)
          => LET n == Cardinality(CollectedNames)
                 k == Len(Top.more_apis)
             IN  /\ Len(apis') >= n + k
                 /\ SubSeq(apis', Len(apis') - n - k + 1, Len(apis') - n) = Top.more_apis
                 /\ SubSeq(apis', 1, Len(apis') - n - k)
                       = SelectSeq(apis, LAMBDA e :
                            /\ e.name \notin CollectedNames
                            /\ \A i \in 1..k : Top.more_apis[i].name # e.name)]_vars

\* C20 witness: the walk of two declarations of the root mod is over, the
\* second of which returned Ok; the placeholder of the first is the last
\* entry of the model, after the entry the second pushed.
C20_Witness ==
    /\ pc = "confirm"
    /\ nitems = 2
    /\ result = "Ok"
    /\ Len(apis) >= 2
    /\ apis[Len(apis)].kind = "IgnoredItem"
    /\ apis[Len(apis)].name.ns = <<>>
    /\ apis[Len(apis) - 1].kind \in WalkKinds
    /\ apis[Len(apis) - 1].name.ns = <<>>

SkipNamed(ns, ident) ==
    \/ QN(ns, ident) \in KnownSubstituteTypes \cup KnownTypes
    \/ (ns = <<>> /\ \E i \in 1..Len(config.rust_types) :
                        config.rust_types[i][Len(config.rust_types[i])] = ident)

\* The step produced neither an entry nor an error.
SilentSkip ==
    /\ apis' = apis
    /\ result' = "Ok"
    /\ Len(stack') = Len(stack)
    /\ stack'[Len(stack')].more_apis = Top.more_apis

\* A struct of a managed type's identifier in a nested scope is classified
\* as any other struct is.
NestedManagedClassified(ident, fields) ==
    LET name == QN(Top.ns, ident) IN
    (/\ Top.ns # <<>>
     /\ is_rust_type(ident)
     /\ ident \notin IllegalIdents
     /\ name \notin KnownSubstituteTypes \cup KnownTypes
     /\ to_cpp_name(name) \notin config.blocklist)
    => /\ result' = "Ok"
       /\ apis' # <<>>
       /\ apis'[Len(apis')].name = name
       /\ apis'[Len(apis')].kind =
             IF \/ HasField(fields, "_unused")
                \/ (HasField(fields, "_address") /\ name \in config.fatal)
             THEN "ForwardDeclaration" ELSE "Struct"

\* C21 as stated: a struct with the vtable suffix, or whose name is a known
\* substitute type or a known type, or which is a managed type at the root,
\* yields no entry and no error whatever its fields, the block list and the
\* legality of its identifier; a struct of a managed type's identifier in a
\* nested scope is classified normally.
C21_SkipRegardlessOfLegality ==
    [][\A ident \in StructIdents, fields \in FieldLists :
          (pc = "walk" /\ nitems' = nitems + 1 /\ ParseStruct(ident, fields)) =>
             /\ (ends_with_bindgen_vtable(ident) \/ SkipNamed(Top.ns, ident)) => SilentSkip
             /\ NestedManagedClassified(ident, fields)]_vars

\* C21: a struct with the vtable suffix yields no entry and no error
\* whatever its fields, the block list and the legality of its identifier.
\* The identifier of any other struct is validated next: if it is not legal
\* the step returns InvalidIdent and pushes nothing, also when the struct is
\* a managed type at the root.  A struct of a legal identifier whose name is
\* a known substitute type or a known type, or which is a managed type at
\* the root, yields no entry and no error whatever its fields and the block
\* list; a struct of a managed type's identifier in a nested scope is
\* classified normally.
C21_SkipAfterValidation ==
    [][\A ident \in StructIdents, fields \in FieldLists :
          (pc = "walk" /\ nitems' = nitems + 1 /\ ParseStruct(ident, fields)) =>
             /\ ends_with_bindgen_vtable(ident) => SilentSkip
             /\ (~ends_with_bindgen_vtable(ident) /\ ident \in IllegalIdents)
                => (result' = "InvalidIdent" /\ apis' = apis)
             /\ (ident \notin IllegalIdents /\ SkipNamed(Top.ns, ident)) => SilentSkip
             /\ NestedManagedClassified(ident, fields)]_vars

\* C21 witness: with A a managed type, the walk has entered mod a and parsed
\* a struct A there: the model holds the RustType A of the configuration and
\* an entry for a::A, and no error was reported.
C21_Witness ==
    /\ pc = "walk"
    /\ Len(stack) = 2
    /\ nitems = 2
    /\ result = "Ok"
    /\ is_rust_type("A")
    /\ Top.more_apis = <<>>
    /\ \E i \in 1..Len(apis) : apis[i].kind = "RustType" /\ apis[i].name = QN(<<>>, "A")
    /\ apis[Len(apis)].name = QN(<<"a">>, "A")
    /\ apis[Len(apis)].kind \in {"Struct", "ForwardDeclaration"}

====
